---- MODULE Spec2Model ----
(***************************************************************************)
(* Loan amortisation with rental cash flow (src/app.py).                   *)
(*                                                                         *)
(* The program computes with Python floats (IEEE-754 binary64, round to    *)
(* nearest, ties to even).  The model keeps that arithmetic: a float is a  *)
(* record [s, m, e] of value (-1)^s * m * 2^e whose significand m is an    *)
(* arbitrary-precision natural (a little-endian sequence of 12-bit limbs,  *)
(* TLC's own integers being 32 bits wide).  Sums, products, quotients and  *)
(* round() are computed exactly and rounded once, as the hardware does;    *)
(* a power is whichever of the two floats around the exact power the C     *)
(* library returns.                                                        *)
(***************************************************************************)
EXTENDS Integers, Sequences, FiniteSets, TLC

(***************************************************************************)
(* Arbitrary-precision naturals: little-endian sequences of limbs below    *)
(* Base, the top limb nonzero (zero is the empty sequence).  Carries are   *)
(* resolved by look-ahead instead of limb-by-limb recursion, and           *)
(* intermediate results are handed on as operator arguments, which TLC     *)
(* evaluates once.                                                         *)
(***************************************************************************)
Base == 2^12

LimbBits == CHOOSE k \in 1..30 : 2^k = Base

IntBitLen(i) == CHOOSE k \in 0..31 : (k = 0 \/ 2^(k - 1) <= i) /\ (k = 31 \/ i < 2^k)

NLimb(a, i) == IF i >= 1 /\ i <= Len(a) THEN a[i] ELSE 0

NTop(nz) == CHOOSE i \in nz : \A j \in nz : j <= i

NTrimTo(a, nz) == IF nz = {} THEN <<>> ELSE SubSeq(a, 1, NTop(nz))

NTrim(a) == NTrimTo(a, {i \in 1..Len(a) : a[i] # 0})

\* One pass of carrying: every entry keeps its low limb and takes its neighbour's excess.
CarryPass(v) == [i \in 1..Len(v) |-> (v[i] % Base) + (IF i > 1 THEN v[i - 1] \div Base ELSE 0)]

\* Entries at most Base: what is left is a carry of 0 or 1 into entry i, which comes
\* from a full entry below it through entries that are all Base - 1.
CarryIn(w, i) == \E j \in 1..(i - 1) : w[j] >= Base /\ \A k \in (j + 1)..(i - 1) : w[k] = Base - 1

CarryLast(w) == NTrim([i \in 1..Len(w) |-> (w[i] + (IF CarryIn(w, i) THEN 1 ELSE 0)) % Base])

\* The natural sum of v[i] * Base^(i-1), for entries v[i] in 0 .. 2^31 - 1: three
\* passes leave every entry at most Base.
NCarry(v) == CarryLast(CarryPass(CarryPass(CarryPass(v \o <<0, 0, 0>>))))

NFromInt(i) == NCarry(<<i>>)

NLen(a, b) == IF Len(a) > Len(b) THEN Len(a) ELSE Len(b)

NAdd(a, b) ==
  IF a = <<>> THEN b
  ELSE IF b = <<>> THEN a
  ELSE NCarry([i \in 1..NLen(a, b) |-> NLimb(a, i) + NLimb(b, i)])

\* A borrow of 0 or 1 out of entry i comes from a negative difference below it
\* through differences that are all zero.
BorrowIn(d, i) == \E j \in 1..(i - 1) : d[j] < 0 /\ \A k \in (j + 1)..(i - 1) : d[k] = 0

BorrowLast(d) == NTrim([i \in 1..Len(d) |-> (d[i] - (IF BorrowIn(d, i) THEN 1 ELSE 0) + Base) % Base])

\* a - b for a >= b
NSub(a, b) ==
  IF b = <<>> THEN a
  ELSE BorrowLast([i \in 1..Len(a) |-> a[i] - NLimb(b, i)])

NCmpAt(a, b, df) == IF df = {} THEN 0 ELSE IF a[NTop(df)] < b[NTop(df)] THEN -1 ELSE 1

\* -1, 0, 1 as a < b, a = b, a > b
NCmp(a, b) ==
  IF Len(a) < Len(b) THEN -1
  ELSE IF Len(a) > Len(b) THEN 1
  ELSE NCmpAt(a, b, {i \in 1..Len(a) : a[i] # b[i]})

\* a * k for 0 <= k <= Base
NMulSmall(a, k) ==
  IF a = <<>> \/ k = 0 THEN <<>> ELSE NCarry([i \in 1..Len(a) |-> a[i] * k])

RECURSIVE SumTo(_, _)
SumTo(f, n) == IF n = 0 THEN 0 ELSE f[n] + SumTo(f, n - 1)

\* a * b: the column sums of the limb products, then the carries (a column holds at
\* most Len(a) products below Base^2, which stays below 2^31 for the sizes used here)
NMul(a, b) ==
  IF a = <<>> \/ b = <<>> THEN <<>>
  ELSE NCarry([k \in 1..(Len(a) + Len(b) - 1) |->
                 SumTo([i \in 1..Len(a) |-> a[i] * NLimb(b, k + 1 - i)], Len(a))])

Zeros(n) == [i \in 1..n |-> 0]

\* a * 2^n
NShl(a, n) ==
  IF a = <<>> THEN <<>>
  ELSE Zeros(n \div LimbBits) \o NMulSmall(a, 2^(n % LimbBits))

NShrBy(a, w, k) ==
  IF w >= Len(a) THEN <<>>
  ELSE NTrim([i \in 1..(Len(a) - w) |->
                (a[i + w] \div (2^k)) + (NLimb(a, i + w + 1) % (2^k)) * (2^(LimbBits - k))])

\* floor(a / 2^n)
NShr(a, n) == NShrBy(a, n \div LimbBits, n % LimbBits)

NBitLen(a) ==
  IF a = <<>> THEN 0 ELSE (Len(a) - 1) * LimbBits + IntBitLen(a[Len(a)])

NIsOdd(a) == a # <<>> /\ a[1] % 2 = 1

\* The nearest natural to n / 2^sh (sh >= 1), ties to even: q is the floor and c
\* compares the remainder with one half.
NRoundPick(q, c) == IF c > 0 \/ (c = 0 /\ NIsOdd(q)) THEN NAdd(q, <<1>>) ELSE q

NRoundFloor(n, sh, q) == NRoundPick(q, NCmp(NSub(n, NShl(q, sh)), NShl(<<1>>, sh - 1)))

NRoundShr(n, sh) == NRoundFloor(n, sh, NShr(n, sh))

\* One quotient limb of long division: floor(r / b) for r < b * Base, where b's top
\* limb is at least Base / 2.  The estimate from r's two top limbs is at most 2 too big.
NDivEst(top, btop) == IF top \div btop >= Base THEN Base - 1 ELSE top \div btop

NDivFix(r, b, est) ==
  IF NCmp(NMulSmall(b, est), r) <= 0 THEN est
  ELSE IF NCmp(NMulSmall(b, est - 1), r) <= 0 THEN est - 1
  ELSE est - 2

NDivLimb(r, b) ==
  NDivFix(r, b, NDivEst(NLimb(r, Len(b) + 1) * Base + NLimb(r, Len(b)), b[Len(b)]))

\* Long division by b, from a's limb i down: q and r are the quotient and the remainder
\* (r < b) of the limbs above i.  <<quotient, remainder>>
RECURSIVE NDivFrom(_, _, _, _, _)
NDivNext(a, b, i, q, ql, r2) ==
  IF NCmp(r2, b) < 0 THEN NDivFrom(a, b, i - 1, <<ql>> \o q, r2)
  ELSE <<(<<>>), (<<>>)>>

NDivSub(a, b, i, q, r1, ql) == NDivNext(a, b, i, q, ql, NSub(r1, NMulSmall(b, ql)))

NDivStep(a, b, i, q, r1) == NDivSub(a, b, i, q, r1, NDivLimb(r1, b))

NDivFrom(a, b, i, q, r) ==
  IF i = 0 THEN <<q, r>> ELSE NDivStep(a, b, i, q, NTrim(<<a[i]>> \o r))

\* <<floor(a / b), a mod b>> for b > 0: both are scaled by 2^d to make b's top limb
\* at least Base / 2, the top Len(b) - 1 limbs of a start as the remainder, and the
\* remainder is scaled back
NDivStart(as, bs) == IF Len(as) >= Len(bs) THEN Len(as) - Len(bs) + 1 ELSE 0

NDivOut(qr, d) == <<NTrim(qr[1]), NShr(qr[2], d)>>

NDivScaled(as, bs, d) ==
  NDivOut(NDivFrom(as, bs, NDivStart(as, bs), <<>>,
                   SubSeq(as, NDivStart(as, bs) + 1, Len(as))), d)

NDivShift(b) == LimbBits - IntBitLen(b[Len(b)])

NDivLong(a, b) == NDivScaled(NShl(a, NDivShift(b)), NShl(b, NDivShift(b)), NDivShift(b))

\* Short division by a single limb d: the remainder of the limbs from i up
RECURSIVE NRemFrom(_, _, _)
NRemFrom(a, i, d) == IF i > Len(a) THEN 0 ELSE (NRemFrom(a, i + 1, d) * Base + a[i]) % d

NDivShort(a, d) ==
  <<NTrim([i \in 1..Len(a) |-> (NRemFrom(a, i + 1, d) * Base + a[i]) \div d]), NFromInt(NRemFrom(a, 1, d))>>

NDivMod(a, b) == IF Len(b) = 1 THEN NDivShort(a, b[1]) ELSE NDivLong(a, b)

\* the number of zero bits below the lowest one bit of a > 0
IntLowZeros(v) == CHOOSE k \in 0..(LimbBits - 1) : v % 2^k = 0 /\ v % 2^(k + 1) # 0

NLowLimb(a) == CHOOSE i \in 1..Len(a) : a[i] # 0 /\ \A j \in 1..(i - 1) : a[j] = 0

NLowZeros(a) == (NLowLimb(a) - 1) * LimbBits + IntLowZeros(a[NLowLimb(a)])

(***************************************************************************)
(* Python floats: IEEE-754 binary64.  [s, m, e] is (-1)^s * m * 2^e.  A    *)
(* normal float has a significand m of exactly DBL_MANT_DIG bits, a        *)
(* subnormal one a shorter m at the exponent MinExp, and zero is m = <<>>  *)
(* at e = 0.  As in the format itself, the exponent above the largest one  *)
(* holds the infinities (significand zero) and NaN (significand nonzero).  *)
(***************************************************************************)
DBL_MANT_DIG == 53

\* every finite float is below 2^DBL_MAX_EXP in magnitude
DBL_MAX_EXP == 1024

\* the smallest normal float is 2^(DBL_MIN_EXP - 1)
DBL_MIN_EXP == -1021

\* the exponent of the subnormal floats' unit
MinExp == DBL_MIN_EXP - DBL_MANT_DIG

Signed(s, m, e) == [s |-> s, m |-> m, e |-> e]

Zero(s) == Signed(s, <<>>, 0)

Inf(s) == Signed(s, <<>>, DBL_MAX_EXP)

NaN == Signed(0, <<1>>, DBL_MAX_EXP)

IsZero(x) == x.m = <<>> /\ x.e = 0

IsInf(x) == x.m = <<>> /\ x.e = DBL_MAX_EXP

IsNaN(x) == x.m # <<>> /\ x.e = DBL_MAX_EXP

IsFinite(x) == x.e < DBL_MAX_EXP

\* a rounded significand that carried into a further bit is halved (it is then even)
Renorm(s, q, e) ==
  IF NBitLen(q) > DBL_MANT_DIG THEN Signed(s, NShr(q, 1), e + 1) ELSE Signed(s, q, e)

\* a result of float precision whose magnitude reaches 2^DBL_MAX_EXP has overflowed
Overflowed(x) == NBitLen(x.m) + x.e > DBL_MAX_EXP

OrInf(x) ==
  IF x.m = <<>> THEN Zero(x.s) ELSE IF Overflowed(x) THEN Inf(x.s) ELSE x

\* the low bits of a len-bit significand at exponent e that a float cannot keep, and
\* the zero bits a short significand is padded with (not below MinExp)
RoundDrop(e, len) ==
  IF len - DBL_MANT_DIG > MinExp - e THEN len - DBL_MANT_DIG ELSE MinExp - e

RoundWiden(e, len) ==
  IF DBL_MANT_DIG - len < e - MinExp THEN DBL_MANT_DIG - len ELSE e - MinExp

RoundBits(s, n, e, len) ==
  IF len = 0 THEN Zero(s)
  ELSE IF RoundDrop(e, len) <= 0
  THEN OrInf(Signed(s, NShl(n, RoundWiden(e, len)), e - RoundWiden(e, len)))
  ELSE OrInf(Renorm(s, NRoundShr(n, RoundDrop(e, len)), e + RoundDrop(e, len)))

\* The float nearest to (-1)^s * n * 2^e, ties to even.
RoundNat(s, n, e) == RoundBits(s, n, e, NBitLen(n))

\* float(i) for a Python int i (exact: every int of the model is below 2^31)
FromInt(i) == RoundNat(IF i < 0 THEN 1 ELSE 0, NFromInt(IF i < 0 THEN -i ELSE i), 0)

Neg(x) == IF IsNaN(x) THEN x ELSE [x EXCEPT !.s = 1 - x.s]

\* x * y
Mul(x, y) ==
  IF IsNaN(x) \/ IsNaN(y) THEN NaN
  ELSE IF IsInf(x) \/ IsInf(y)
  THEN (IF IsZero(x) \/ IsZero(y) THEN NaN ELSE Inf((x.s + y.s) % 2))
  ELSE RoundNat((x.s + y.s) % 2, NMul(x.m, y.m), x.e + y.e)

\* the sum of two nonzero floats whose significands nx, ny are aligned on 2^emin
AddAligned(sx, nx, sy, ny, emin, c) ==
  IF sx = sy THEN RoundNat(sx, NAdd(nx, ny), emin)
  ELSE IF c = 0 THEN Zero(0)
  ELSE IF c > 0 THEN RoundNat(sx, NSub(nx, ny), emin)
  ELSE RoundNat(sy, NSub(ny, nx), emin)

AddAt(x, y, emin) ==
  AddAligned(x.s, NShl(x.m, x.e - emin), y.s, NShl(y.m, y.e - emin), emin,
             NCmp(NShl(x.m, x.e - emin), NShl(y.m, y.e - emin)))

\* x + y
Add(x, y) ==
  IF IsNaN(x) \/ IsNaN(y) THEN NaN
  ELSE IF IsInf(x) THEN (IF IsInf(y) /\ y.s # x.s THEN NaN ELSE x)
  ELSE IF IsInf(y) THEN y
  ELSE IF IsZero(x) /\ IsZero(y) THEN Zero(x.s * y.s)
  ELSE IF IsZero(x) THEN y
  ELSE IF IsZero(y) THEN x
  ELSE AddAt(x, y, IF x.e < y.e THEN x.e ELSE y.e)

\* x - y
Sub(x, y) == Add(x, Neg(y))

\* The float nearest to (-1)^s * (a / b) * 2^e for naturals a, b > 0: the quotient to
\* more than DBL_MANT_DIG + 2 bits, with a last bit that records a nonzero remainder.
QuotShift(a, b) ==
  DBL_MANT_DIG + 3 + (IF NBitLen(b) > NBitLen(a) THEN NBitLen(b) - NBitLen(a) ELSE 0)

RoundSticky(s, qr, e) ==
  IF qr[2] = <<>> THEN RoundNat(s, qr[1], e)
  ELSE RoundNat(s, NAdd(NMulSmall(qr[1], 2), <<1>>), e - 1)

\* a dividend far longer than the divisor first loses the low bits the quotient has
\* no use for, a nonzero one among them counting as a remainder
RoundInexact(s, qr, lost, e) ==
  IF qr[2] = <<>> /\ ~lost THEN RoundNat(s, qr[1], e)
  ELSE RoundNat(s, NAdd(NMulSmall(qr[1], 2), <<1>>), e - 1)

RoundCut(s, a, x, b, e, k) == RoundInexact(s, NDivMod(x, b), NShl(x, k) # a, e + k)

RoundOdd(s, a, b, e) ==
  IF NBitLen(a) - NBitLen(b) > DBL_MANT_DIG + 3
  THEN RoundCut(s, a, NShr(a, NBitLen(a) - NBitLen(b) - (DBL_MANT_DIG + 3)), b, e,
                NBitLen(a) - NBitLen(b) - (DBL_MANT_DIG + 3))
  ELSE RoundSticky(s, NDivMod(NShl(a, QuotShift(a, b)), b), e - QuotShift(a, b))

\* (the divisor without its low zero bits, which go to the exponent)
RoundQuot(s, a, b, e) == RoundOdd(s, a, NShr(b, NLowZeros(b)), e - NLowZeros(b))

\* x / y for y # 0 (Python raises ZeroDivisionError on y = 0: see the callers)
Div(x, y) ==
  IF IsNaN(x) \/ IsNaN(y) THEN NaN
  ELSE IF IsInf(x) THEN (IF IsInf(y) THEN NaN ELSE Inf((x.s + y.s) % 2))
  ELSE IF IsInf(y) \/ IsZero(x) THEN Zero((x.s + y.s) % 2)
  ELSE RoundQuot((x.s + y.s) % 2, x.m, y.m, x.e - y.e)

Sign(x) == IF IsZero(x) THEN 0 ELSE 1 - 2 * x.s

\* -1, 0, 1 as x < y, x = y, x > y, for x and y that are not NaN
Cmp(x, y) ==
  IF Sign(x) # Sign(y) THEN (IF Sign(x) < Sign(y) THEN -1 ELSE 1)
  ELSE IF Sign(x) = 0 THEN 0
  ELSE IF x.e # y.e THEN (IF x.e < y.e THEN -Sign(x) ELSE Sign(x))
  ELSE Sign(x) * NCmp(x.m, y.m)

\* every comparison with NaN is false
Ordered(x, y) == ~IsNaN(x) /\ ~IsNaN(y)

Lt(x, y) == Ordered(x, y) /\ Cmp(x, y) < 0
Le(x, y) == Ordered(x, y) /\ Cmp(x, y) <= 0
Ge(x, y) == Ordered(x, y) /\ Cmp(x, y) >= 0
Gt(x, y) == Ordered(x, y) /\ Cmp(x, y) > 0
Eq(x, y) == Ordered(x, y) /\ Cmp(x, y) = 0

\* round(x * 100) as Python's round(x, 2) rounds it: the nearest natural to
\* |x| * 100 on the exact binary value of x, ties to even
NearestCents(x) ==
  IF x.e >= 0 THEN NShl(NMulSmall(x.m, 100), x.e)
  ELSE NRoundShr(NMulSmall(x.m, 100), -x.e)

CentsToFloat(s, k) ==
  IF k = <<>> THEN Zero(s) ELSE RoundQuot(s, k, <<100>>, 0)

\* round(x, 2): the float nearest to the decimal NearestCents(x) / 100, x's sign kept;
\* an infinity, NaN or float without fractional bits rounds to itself
Round2(x) == IF IsFinite(x) /\ x.e < 0 THEN CentsToFloat(x.s, NearestCents(x)) ELSE x

(***************************************************************************)
(* float ** int is C's pow (float_pow).  A C library returns one of the    *)
(* two floats that enclose the exact power, which of them depending on the *)
(* library and the processor it runs on (glibc stays within about 0.52     *)
(* units in the last place): the model keeps both.                         *)
(***************************************************************************)

\* Interval arithmetic on naturals for x ** n: [L, E, s] holds a value v with
\* L * 2^s <= v <= (L + E) * 2^s, L kept to at most p bits.
Approx(L, E, s) == [L |-> L, E |-> E, s |-> s]

ApproxErr(prodL, prodE, t, newL) ==
  IF prodE = <<>> /\ NShl(newL, t) = prodL THEN <<>> ELSE NAdd(NShr(prodE, t), <<2>>)

ApproxCut(prodL, prodE, s, t) ==
  Approx(NShr(prodL, t), ApproxErr(prodL, prodE, t, NShr(prodL, t)), s + t)

ApproxProd(prodL, prodE, s, p) ==
  ApproxCut(prodL, prodE, s, IF NBitLen(prodL) > p THEN NBitLen(prodL) - p ELSE 0)

ApproxMul(a, b, p) ==
  ApproxProd(NMul(a.L, b.L),
             NAdd(NAdd(NMul(a.L, b.E), NMul(a.E, b.L)), NMul(a.E, b.E)),
             a.s + b.s, p)

\* (a zero power stays zero: the tests settle each product before it is used)
ApproxOdd(m, n, p, sq) ==
  IF sq.L = <<>> THEN sq
  ELSE IF n % 2 = 1 THEN ApproxMul(sq, Approx(m, <<>>, 0), p)
  ELSE sq

ApproxSquare(m, n, p, h) ==
  IF h.L = <<>> THEN h ELSE ApproxOdd(m, n, p, ApproxMul(h, h, p))

\* m^n for n >= 1, by squaring
RECURSIVE ApproxPow(_, _, _)
ApproxPow(m, n, p) ==
  IF n = 1 THEN Approx(m, <<>>, 0)
  ELSE ApproxSquare(m, n, p, ApproxPow(m, n \div 2, p))

\* (-1)^s * n * 2^e cut toward zero to the precision of a float (of any exponent
\* above MinExp), and whether the cut lost nothing
ChopBits(s, n, e, len) ==
  IF len = 0 THEN Zero(s)
  ELSE IF RoundDrop(e, len) <= 0
  THEN Signed(s, NShl(n, RoundWiden(e, len)), e - RoundWiden(e, len))
  ELSE IF NShr(n, RoundDrop(e, len)) = <<>> THEN Zero(s)
  ELSE Signed(s, NShr(n, RoundDrop(e, len)), e + RoundDrop(e, len))

Chop(s, n, e) == ChopBits(s, n, e, NBitLen(n))

ChopLossless(n, drop) == drop <= 0 \/ NShl(NShr(n, drop), drop) = n

ChopExact(n, e) == ChopLossless(n, RoundDrop(e, NBitLen(n)))

\* the same for (-1)^s * 2^e / v, from <<quotient, remainder>> of 2^sh by v
ChopQuot(s, qr, e) == Chop(s, qr[1], e)

ChopQuotExact(qr, e) == qr[2] = <<>> /\ ChopExact(qr[1], e)

PowQuot(v) == NDivMod(NShl(<<1>>, QuotShift(<<1>>, v)), v)

\* v * 2^ex to the n / |n|, cut toward zero
PowEnd(s, v, ex, n) ==
  IF n > 0 THEN Chop(s, v, ex) ELSE ChopQuot(s, PowQuot(v), -ex - QuotShift(<<1>>, v))

PowEndExact(v, ex, n) ==
  IF n > 0 THEN ChopExact(v, ex) ELSE ChopQuotExact(PowQuot(v), -ex - QuotShift(<<1>>, v))

\* the outcome of an expression: a value, or the exception it raises
NoError == "none"

Value(v) == [exc |-> NoError, val |-> v]

Raise(e) == [exc |-> e, val |-> FromInt(0)]

\* the float next to x away from zero
NextAway(x) ==
  IF x.m = <<>> THEN Signed(x.s, <<1>>, MinExp) ELSE Renorm(x.s, NAdd(x.m, <<1>>), x.e)

\* float_pow: a power that overflows raises OverflowError
PowResult(x) ==
  IF x.m # <<>> /\ Overflowed(x) THEN Raise("OverflowError") ELSE Value(x)

\* the exact power lies at d (exact) or between d and the next float
PowNear(d, exact) ==
  IF exact THEN {PowResult(d)} ELSE {PowResult(d), PowResult(NextAway(d))}

\* The interval of x's significand to the |n| is narrowed, p bits at a time, until
\* both its ends are cut to the same float.
RECURSIVE PowPrec(_, _, _)
PowAgree(x, n, p, lo, hi, exact) ==
  IF lo = hi THEN PowNear(lo, exact) ELSE PowPrec(x, n, 2 * p)

PowEnds(x, n, p, ex, sg, a) ==
  PowAgree(x, n, p, PowEnd(sg, a.L, ex, n), PowEnd(sg, NAdd(a.L, a.E), ex, n),
           a.E = <<>> /\ PowEndExact(a.L, ex, n))

PowIn(x, n, p, k, a) ==
  PowEnds(x, n, p, a.s + k * x.e, IF k % 2 = 1 THEN x.s ELSE 0, a)

PowAbs(x, n, p, k) == PowIn(x, n, p, k, ApproxPow(x.m, k, p))

PowPrec(x, n, p) == PowAbs(x, n, p, IF n < 0 THEN -n ELSE n)

PowSign(x, n) == IF n % 2 = 1 THEN x.s ELSE 0

\* x ** n for a float x and a Python int n: the outcomes of float_pow
Pow(x, n) ==
  IF n = 0 THEN {Value(FromInt(1))}
  ELSE IF IsNaN(x) THEN {Value(x)}
  ELSE IF IsInf(x) THEN {Value(IF n > 0 THEN Inf(PowSign(x, n)) ELSE Zero(PowSign(x, n)))}
  ELSE IF IsZero(x)
  THEN (IF n < 0 THEN {Raise("ZeroDivisionError")} ELSE {Value(Zero(PowSign(x, n)))})
  ELSE PowPrec(x, n, 10 * LimbBits)

(***************************************************************************)
(* Python values.  A numeric literal of the inputs is the pair n/d of the  *)
(* decimal it is written as: an int when d = 1, otherwise the float        *)
(* nearest to n/d.  A number is a float or an int; an int is the record    *)
(* [s, n] of value (-1)^s * n, of any size, and its arithmetic with        *)
(* another int is exact.  None is the empty sequence and a present value a *)
(* one-element sequence.                                                   *)
(***************************************************************************)
Lit(n, d) == [n |-> n, d |-> d]

Long(s, n) == [s |-> IF n = <<>> THEN 0 ELSE s, n |-> n]

IsInt(x) == DOMAIN x = {"s", "n"}

PyInt(i) == Long(IF i < 0 THEN 1 ELSE 0, NFromInt(IF i < 0 THEN -i ELSE i))

\* the number a literal denotes
Num(l) == IF l.d = 1 THEN PyInt(l.n) ELSE Div(FromInt(l.n), FromInt(l.d))

\* the float an operand of mixed arithmetic is converted to (the nearest one, ties
\* to even), and the ints that have none: the conversion raises OverflowError
AsFloat(x) == IF IsInt(x) THEN RoundNat(x.s, x.n, 0) ELSE x

TooLarge(x) == IsInt(x) /\ IsInf(AsFloat(x))

None == <<>>

\* builtin max(a, b) of two numbers: b when b > a, else a
Max2(a, b) == IF Gt(b, a) THEN b ELSE a

\* x / y of floats: the division raises on a zero divisor
TrueDiv(x, y) == IF IsZero(y) THEN Raise("ZeroDivisionError") ELSE Value(Div(x, y))

\* x / y of ints: the float nearest to the exact quotient
QuotResult(q) == IF IsInf(q) THEN Raise("OverflowError") ELSE Value(q)

IntTrueDiv(x, y) ==
  IF y.n = <<>> THEN Raise("ZeroDivisionError")
  ELSE IF x.n = <<>> THEN Value(Zero(y.s))
  ELSE QuotResult(RoundQuot((x.s + y.s) % 2, x.n, y.n, 0))

\* x / y of two numbers
PyTrueDiv(x, y) ==
  IF IsInt(x) /\ IsInt(y) THEN IntTrueDiv(x, y)
  ELSE IF TooLarge(x) \/ TooLarge(y) THEN Raise("OverflowError")
  ELSE TrueDiv(AsFloat(x), AsFloat(y))

\* x * y of two numbers
PyMul(x, y) ==
  IF IsInt(x) /\ IsInt(y) THEN Value(Long((x.s + y.s) % 2, NMul(x.n, y.n)))
  ELSE IF TooLarge(x) \/ TooLarge(y) THEN Raise("OverflowError")
  ELSE Value(Mul(AsFloat(x), AsFloat(y)))

\* x - y of a number and a float
PySub(x, y) ==
  IF TooLarge(x) THEN Raise("OverflowError") ELSE Value(Sub(AsFloat(x), y))

(***************************************************************************)
(* calculate_emi(P, annual_rate, years): the outcomes of the call, each    *)
(* the monthly instalment or the exception that its power or its division  *)
(* raises.                                                                 *)
(***************************************************************************)
MonthlyRate(annual_rate) == PyTrueDiv(annual_rate, PyInt(12 * 100))

\* line 11, Pr being the value of P * r and growth that of (1 + r) ** n in both of
\* its places
EmiFormula(Pr, growth) == TrueDiv(Mul(Pr, growth), Sub(growth, FromInt(1)))

\* line 11 in its order of evaluation: P * r, then the power
EmiWith(pr, pw) ==
  IF pr.exc # NoError THEN pr
  ELSE IF pw.exc # NoError THEN pw
  ELSE EmiFormula(pr.val, pw.val)

EmiOutcomes(P, r, n) == {EmiWith(PyMul(P, r), pw) : pw \in Pow(Add(FromInt(1), r), n)}

\* lines 10-11, r being the outcome of line 9
EmiOf(P, r, n) == IF r.exc # NoError THEN {r} ELSE EmiOutcomes(P, r.val, n)

calculate_emi(P, annual_rate, years) == EmiOf(P, MonthlyRate(annual_rate), years * 12)

(***************************************************************************)
(* The arguments the model calls generate_amortization with.               *)
(***************************************************************************)
MaxTenureYears == 3

Tenures == (-1)..MaxTenureYears

ValidTenures == 1..MaxTenureYears

Args(pv, dp, rate, ty, rent, inc, vac) ==
  [property_value |-> pv, down_payment_percent |-> dp,
   annual_interest_rate |-> rate, tenure_years |-> ty,
   base_monthly_rent |-> rent, annual_rent_increase |-> inc,
   vacancy_months |-> vac]

\* sound and unsound loans against one rental profile, every tenure
LoanInputs ==
  {Args(pv, dp, rate, ty, Lit(50, 1), Lit(50, 10), 1) :
     pv \in {Lit(1200, 1)}, dp \in {Lit(0, 1), Lit(10, 1)},
     rate \in {Lit(12, 1), Lit(74, 10)}, ty \in Tenures}
  \cup
  {Args(pv, Lit(0, 1), Lit(12, 1), ty, Lit(50, 1), Lit(50, 10), 1) :
     pv \in {Lit(0, 1), Lit(-100, 1)}, ty \in Tenures}
  \cup
  {Args(Lit(1200, 1), Lit(0, 1), rate, ty, Lit(50, 1), Lit(50, 10), 1) :
     rate \in {Lit(0, 1), Lit(-5, 1)}, ty \in Tenures}
  \cup
  {Args(Lit(18, 1000), Lit(0, 1), Lit(12, 1), ty, Lit(50, 1), Lit(50, 10), 1) :
     ty \in ValidTenures}

\* one loan against rents around the instalment, with and without escalation
RentInputs ==
  {Args(Lit(1200, 1), Lit(0, 1), Lit(12, 1), ty, p[1], p[2], 0) :
     ty \in ValidTenures,
     p \in {<<Lit(5230, 100), Lit(80, 10)>>, <<Lit(55, 1), Lit(50, 10)>>}}
  \cup
  {Args(Lit(1200, 1), Lit(0, 1), Lit(74, 10), ty, Lit(5288, 100), Lit(20, 10), 0) :
     ty \in ValidTenures}

\* one loan against every vacancy pattern, and against negligible rents
VacancyInputs ==
  {Args(Lit(1200, 1), Lit(0, 1), Lit(12, 1), ty, Lit(120, 1), Lit(0, 10), vac) :
     ty \in ValidTenures, vac \in {0, 1, 3, 11, 12}}
  \cup
  {Args(Lit(1200, 1), Lit(0, 1), Lit(12, 1), ty, rent, Lit(0, 10), 1) :
     ty \in ValidTenures, rent \in {Lit(0, 1), Lit(4, 1000)}}

\* rates far outside the sliders' 5.0 to 15.0.  One in a million of a percent over
\* a year; a million percent over thirty years, whose power overflows; and rates
\* whose power (1 + r) ** n is a float too large to tell from (1 + r) ** n - 1:
\* 1200 % over five years (2 ** 60), 37200 % over one (32 ** 12) and 6000 % over
\* two (6 ** 24)
ExtremeRateInputs ==
  {Args(Lit(1200, 1), Lit(0, 1), Lit(1, 1000000), 1, Lit(50, 1), Lit(50, 10), 1),
   Args(Lit(1200, 1), Lit(0, 1), Lit(1000000, 1), 30, Lit(50, 1), Lit(50, 10), 1),
   Args(Lit(1200, 1), Lit(0, 1), Lit(1200, 1), 5, Lit(50, 1), Lit(0, 10), 1),
   Args(Lit(1200, 1), Lit(0, 1), Lit(37200, 1), 1, Lit(50, 1), Lit(0, 10), 1),
   Args(Lit(12762, 1), Lit(0, 1), Lit(6000, 1), 2, Lit(50, 1), Lit(0, 10), 1)}

Inputs == LoanInputs \cup RentInputs \cup VacancyInputs \cup ExtremeRateInputs

(***************************************************************************)
(* The program: the call of generate_amortization, its loop, its return,   *)
(* then the script's break-even scan and cash-flow column.                 *)
(* libm holds what the C library's pow has returned to line 41 so far: a   *)
(* call repeated with the same arguments returns the same float.           *)
(***************************************************************************)
VARIABLES args, pc, exc, loan_amount, emi, monthly_rate, balance, month,
          rows, returned, scan, break_even_year, cashflow_positive, libm

vars == <<args, pc, exc, loan_amount, emi, monthly_rate, balance, month,
          rows, returned, scan, break_even_year, cashflow_positive, libm>>

Init ==
  /\ args \in Inputs
  /\ pc = "call"
  /\ exc = NoError
  /\ loan_amount = FromInt(0)
  /\ emi = FromInt(0)
  /\ monthly_rate = FromInt(0)
  /\ balance = FromInt(0)
  /\ month = 1
  /\ rows = <<>>
  /\ returned = FALSE
  /\ scan = 1
  /\ break_even_year = None
  /\ cashflow_positive = <<>>
  /\ libm = [c \in {} |-> Value(FromInt(0))]

\* line 29: the product of two ints is exact, and its quotient by 100 rounded once
DivideBy(o, y) == IF o.exc # NoError THEN o ELSE PyTrueDiv(o.val, y)

DownPayment(property_value, down_payment_percent) ==
  DivideBy(PyMul(property_value, down_payment_percent), PyInt(100))

\* line 30
TakeFrom(x, o) == IF o.exc # NoError THEN o ELSE PySub(x, o.val)

LoanAmount(property_value, down_payment_percent) ==
  TakeFrom(property_value, DownPayment(property_value, down_payment_percent))

\* lines 32-36: the instalment and the loop's initial state
CallWith(loan, e) ==
  IF e.exc # NoError
  THEN /\ pc' = "raised"
       /\ exc' = e.exc
       /\ UNCHANGED <<loan_amount, emi, monthly_rate, balance>>
  ELSE /\ pc' = "loop"
       /\ exc' = exc
       /\ loan_amount' = loan
       /\ emi' = e.val
       /\ monthly_rate' = MonthlyRate(Num(args.annual_interest_rate)).val
       /\ balance' = loan

CallLoan(loan) ==
  IF loan.exc # NoError
  THEN CallWith(loan.val, loan)
  ELSE \E e \in calculate_emi(loan.val, Num(args.annual_interest_rate), args.tenure_years) :
         CallWith(loan.val, e)

Call ==
  /\ pc = "call"
  /\ CallLoan(LoanAmount(Num(args.property_value), Num(args.down_payment_percent)))
  /\ month' = 1
  /\ rows' = <<>>
  /\ UNCHANGED <<args, returned, scan, break_even_year, cashflow_positive, libm>>

\* mutation of line 39: the year taken from the month itself
YearOfMonth(m) == m \div 12

\* line 39
YearIndex(m) == (m - 1) \div 12

\* line 41: annual_rent_increase / 100
RentIncrease(annual_rent_increase) == PyTrueDiv(annual_rent_increase, PyInt(100))

\* line 41's power, as the arguments of its call of pow
RentPower(increase, year) == <<Add(FromInt(1), increase), year>>

\* what the call c of pow can return once lib is known of the library
PowOf(lib, c) == IF c \in DOMAIN lib THEN {lib[c]} ELSE Pow(c[1], c[2])

\* mutation of line 41: the rent never escalated
RentNotEscalated(base_monthly_rent, growth) == PyMul(base_monthly_rent, FromInt(1))

\* line 41, growth being the value of its power
EscalatedRent(base_monthly_rent, growth) == PyMul(base_monthly_rent, growth)

\* mutation of line 44: the vacancy at the start of the year
IsVacantFirst(m, vacancy_months) == (m - 1) % 12 < vacancy_months

\* line 44
IsVacant(m, vacancy_months) == (m - 1) % 12 >= 12 - vacancy_months

\* lines 44-47
EffectiveRent(m, vacancy_months, escalated_rent) ==
  IF IsVacant(m, vacancy_months) THEN FromInt(0) ELSE escalated_rent

\* lines 53-62
Row(m, principal, interest, bal, effective_rent) ==
  [Year |-> YearIndex(m) + 1,
   Month |-> m,
   PrincipalPaid |-> Round2(principal),
   InterestCharged |-> Round2(interest),
   TotalEMI |-> Round2(emi),
   OutstandingBalance |-> Round2(Max2(bal, FromInt(0))),
   RentReceived |-> Round2(effective_rent),
   AmountPaidByUser |-> Round2(Sub(emi, effective_rent))]

\* line 49
Interest(bal, rate) == Mul(bal, rate)

\* mutation of line 50: the whole instalment taken as principal
PrincipalAll(instalment, interest) == instalment

\* line 50
Principal(instalment, interest) == Sub(instalment, interest)

\* line 51
NewBalance(bal, principal) == Sub(bal, principal)

\* lines 50-62
Pay(interest, principal, effective_rent) ==
  /\ balance' = NewBalance(balance, principal)
  /\ rows' = Append(rows, Row(month, principal, interest, NewBalance(balance, principal),
                              effective_rent))

\* lines 41-62, rent being the outcome of line 41
MonthWith(rent) ==
  IF rent.exc # NoError
  THEN /\ pc' = "raised"
       /\ exc' = rent.exc
       /\ UNCHANGED <<balance, rows, month>>
  ELSE /\ Pay(Interest(balance, monthly_rate),
              Principal(emi, Interest(balance, monthly_rate)),
              EffectiveRent(month, args.vacancy_months, rent.val))
       /\ month' = month + 1
       /\ UNCHANGED <<pc, exc>>

\* line 41's product, pw being the outcome of its power
RentWith(pw) ==
  IF pw.exc # NoError THEN pw ELSE EscalatedRent(Num(args.base_monthly_rent), pw.val)

MonthOf(c) ==
  \E pw \in PowOf(libm, c) : libm' = (c :> pw) @@ libm /\ MonthWith(RentWith(pw))

\* line 41 onwards, increase being the outcome of annual_rent_increase / 100
MonthFrom(increase) ==
  IF increase.exc # NoError
  THEN libm' = libm /\ MonthWith(increase)
  ELSE MonthOf(RentPower(increase.val, YearIndex(month)))

\* lines 38-62: one iteration of the loop
LoopBody ==
  /\ pc = "loop"
  /\ month <= args.tenure_years * 12
  /\ MonthFrom(RentIncrease(Num(args.annual_rent_increase)))
  /\ UNCHANGED <<args, loan_amount, emi, monthly_rate, returned,
                 scan, break_even_year, cashflow_positive>>

\* line 64, then line 152: the frame of an empty schedule has no columns
Return ==
  /\ pc = "loop"
  /\ month > args.tenure_years * 12
  /\ returned' = TRUE
  /\ IF rows = <<>>
     THEN pc' = "raised" /\ exc' = "KeyError"
     ELSE pc' = "scan" /\ exc' = exc
  /\ scan' = 1
  /\ UNCHANGED <<args, loan_amount, emi, monthly_rate, balance, month, rows,
                 break_even_year, cashflow_positive, libm>>

\* df["Year"].unique(): the years in order of first appearance
RECURSIVE Unique(_)
Unique(s) ==
  IF s = <<>> THEN <<>>
  ELSE LET u == Unique(SubSeq(s, 1, Len(s) - 1))
       IN  IF \E i \in 1..Len(u) : u[i] = s[Len(s)] THEN u ELSE Append(u, s[Len(s)])

Years == Unique([i \in 1..Len(rows) |-> rows[i].Year])

\* df[df["Year"] == year]["Rent Received"]
RECURSIVE RentOfYear(_, _)
RentOfYear(year, n) ==
  IF n = 0 THEN <<>>
  ELSE IF rows[n].Year = year THEN Append(RentOfYear(year, n - 1), rows[n].RentReceived)
  ELSE RentOfYear(year, n - 1)

\* the float sum of a column: eight partial sums over blocks of eight,
\* combined pairwise, then the remaining elements in order
RECURSIVE SumSeq(_, _, _)
SumSeq(a, i, acc) == IF i > Len(a) THEN acc ELSE SumSeq(a, i + 1, Add(acc, a[i]))

RECURSIVE Lane(_, _, _)
Lane(a, j, last) == IF j + 8 > last THEN a[j] ELSE Add(Lane(a, j, last - 8), a[last - ((last - j) % 8)])

ColumnSum(a) ==
  LET n == Len(a)
      full == n - (n % 8)
      r(j) == Lane(a, j, full)
  IN  IF n < 8 THEN SumSeq(a, 1, FromInt(0))
      ELSE SumSeq(a, full + 1,
                  Add(Add(Add(r(1), r(2)), Add(r(3), r(4))),
                      Add(Add(r(5), r(6)), Add(r(7), r(8)))))

\* mutation of line 222: the year's total instead of its mean
MeanIsSum(a) == ColumnSum(a)

Mean(a) == Div(ColumnSum(a), FromInt(Len(a)))

\* line 222
BreakEven(year) == Ge(Mean(RentOfYear(year, Len(rows))), emi)

\* lines 218-224: one iteration of the scan, or its exhaustion
ScanYear ==
  /\ pc = "scan"
  /\ IF scan > Len(Years)
     THEN pc' = "flags" /\ UNCHANGED <<scan, break_even_year>>
     ELSE IF BreakEven(Years[scan])
     THEN pc' = "flags" /\ break_even_year' = <<Years[scan]>> /\ scan' = scan
     ELSE pc' = pc /\ scan' = scan + 1 /\ break_even_year' = break_even_year
  /\ UNCHANGED <<args, exc, loan_amount, emi, monthly_rate, balance, month,
                 rows, returned, cashflow_positive, libm>>

\* mutation of line 235: the comparison reversed
CashflowReversed(row) == Ge(row.TotalEMI, row.RentReceived)

\* line 235
CashflowPositive(row) == Ge(row.RentReceived, row.TotalEMI)

Flags ==
  /\ pc = "flags"
  /\ cashflow_positive' = [i \in 1..Len(rows) |-> CashflowPositive(rows[i])]
  /\ pc' = "done"
  /\ UNCHANGED <<args, exc, loan_amount, emi, monthly_rate, balance, month,
                 rows, returned, scan, break_even_year, libm>>

Next == Call \/ LoopBody \/ Return \/ ScanYear \/ Flags

Spec == Init /\ [][Next]_vars

(***************************************************************************)
(* Measuring the emitted values exactly: amounts in whole cents, floats as *)
(* the rationals m * 2^e they are.                                         *)
(***************************************************************************)
RECURSIVE IntOf(_)
IntOf(a) == IF a = <<>> THEN 0 ELSE a[1] + Base * IntOf(Tail(a))

\* the emitted amount x in cents
CentsOf(x) == (IF x.s = 1 THEN -1 ELSE 1) * IntOf(NearestCents(x))

Abs(i) == IF i < 0 THEN -i ELSE i

CeilDiv(a, b) == (a + b - 1) \div b

\* the input literal l as a natural number of 1/l.d
Positive(l) == l.n > 0

ValidInput ==
  /\ Positive(args.property_value)
  /\ Positive(args.annual_interest_rate)
  /\ args.tenure_years > 0

NDist(a, b) == IF NCmp(a, b) >= 0 THEN NSub(a, b) ELSE NSub(b, a)

\* |k / 100 - x| <= n / 100 for k >= 0 cents, a float x >= 0 and n cents
WithinCents(k, x, n) ==
  IF x.e >= 0
  THEN NCmp(NDist(NFromInt(k), NShl(NMulSmall(x.m, 100), x.e)), NFromInt(n)) <= 0
  ELSE NCmp(NDist(NShl(NFromInt(k), -x.e), NMulSmall(x.m, 100)), NShl(NFromInt(n), -x.e)) <= 0

\* k / (100 * n) >= x for k >= 0 cents over n rows and a float x
MeanAtLeast(k, n, x) ==
  IF IsZero(x) \/ x.s = 1 THEN TRUE
  ELSE IF x.e >= 0
  THEN NCmp(NFromInt(k), NShl(NMulSmall(NMulSmall(x.m, 100), n), x.e)) >= 0
  ELSE NCmp(NShl(NFromInt(k), -x.e), NMulSmall(NMulSmall(x.m, 100), n)) >= 0

RECURSIVE SumCents(_, _)
SumCents(col, n) == IF n = 0 THEN 0 ELSE CentsOf(col[n]) + SumCents(col, n - 1)

PrincipalColumn == [i \in 1..Len(rows) |-> rows[i].PrincipalPaid]

RowsOfYear(y) == {i \in 1..Len(rows) : rows[i].Year = y}

RECURSIVE RentCentsOfYear(_, _)
RentCentsOfYear(y, n) ==
  IF n = 0 THEN 0
  ELSE (IF rows[n].Year = y THEN CentsOf(rows[n].RentReceived) ELSE 0) + RentCentsOfYear(y, n - 1)

\* the year's mean Rent Received reaches the instalment
MeanRentCovers(y) ==
  MeanAtLeast(RentCentsOfYear(y, Len(rows)), Cardinality(RowsOfYear(y)), emi)

RECURSIVE NPow(_, _)
NPow(a, n) == IF n = 0 THEN <<1>> ELSE NMul(a, NPow(a, n - 1))

\* base * (1 + increase / 100)^(y - 1) in cents is RentNum(y) / RentDen(y)
RentNum(y) ==
  NMul(NFromInt(100 * args.base_monthly_rent.n * args.annual_rent_increase.d),
       NPow(NFromInt(100 * args.annual_rent_increase.d + args.annual_rent_increase.n), y - 1))

RentDen(y) ==
  NMul(NFromInt(args.base_monthly_rent.d * args.annual_rent_increase.d),
       NPow(NFromInt(100 * args.annual_rent_increase.d), y - 1))

\* the emitted rent x is exactly the escalated rent of year y
RentExact(x, y) == NMul(NFromInt(CentsOf(x)), RentDen(y)) = RentNum(y)

\* the emitted rent x is within half a cent of the escalated rent of year y
RentRounded(x, y) ==
  NCmp(NMulSmall(NDist(NMul(NFromInt(CentsOf(x)), RentDen(y)), RentNum(y)), 2), RentDen(y)) <= 0

Vacant(i) == (i - 1) % 12 >= 12 - args.vacancy_months

RentAtLeastOneCent == 100 * args.base_monthly_rent.n >= args.base_monthly_rent.d

(***************************************************************************)
(* The claims.                                                             *)
(***************************************************************************)

\* C1: for a positive tenure the schedule has exactly tenure_years * 12 rows, and
\* row i (emitted or yet to be joined by the others) has Month = i and
\* Year = ceil(Month / 12).
C1_RowCountAndIndex ==
  args.tenure_years >= 1 =>
    /\ returned => Len(rows) = args.tenure_years * 12
    /\ \A i \in 1..Len(rows) : rows[i].Month = i /\ rows[i].Year = CeilDiv(i, 12)

C1_Witness ==
  /\ returned
  /\ Len(rows) = 24
  /\ rows[12].Year = 1
  /\ rows[13].Year = 2

\* C2 (as stated): for a base rent above zero, exactly the last vacancy_months
\* positions of every 12-month cycle have Rent Received equal to zero.
C2_AnyPositiveRent ==
  (pc = "done" /\ Positive(args.base_monthly_rent)) =>
    \A i \in 1..Len(rows) : IsZero(rows[i].RentReceived) <=> Vacant(i)

\* C2 (amended): for a base rent of at least one cent, exactly the last
\* vacancy_months positions of every 12-month cycle have Rent Received equal to zero.
C2_RentOfACent ==
  (pc = "done" /\ RentAtLeastOneCent) =>
    \A i \in 1..Len(rows) : IsZero(rows[i].RentReceived) <=> Vacant(i)

C2_Witness ==
  /\ pc = "done"
  /\ RentAtLeastOneCent
  /\ args.vacancy_months = 3
  /\ Len(rows) = 24
  /\ ~IsZero(rows[21].RentReceived)
  /\ IsZero(rows[22].RentReceived)

\* C3: an input with a property value, an annual rate or a tenure that is not
\* positive never gets a result: the call does not return and no row is produced.
C3_InvalidRejected == ~ValidInput => (~returned /\ rows = <<>>)

C5_BalanceBelowRoundedLoan ==
  (pc = "done" /\ ValidInput) =>
    /\ \A i \in 1..Len(rows) : Ge(rows[i].OutstandingBalance, FromInt(0))
    /\ \A i \in 2..Len(rows) : Le(rows[i].OutstandingBalance, rows[i - 1].OutstandingBalance)
    /\ Le(rows[1].OutstandingBalance, Round2(loan_amount))

\* C6: for a valid input, after the last month the emitted Outstanding Balance is
\* zero and the emitted Principal Paid sums to the loan amount, both within one
\* cent per row.
C6_LoanRepaid ==
  (pc = "done" /\ ValidInput) =>
    /\ Abs(CentsOf(rows[Len(rows)].OutstandingBalance)) <= Len(rows)
    /\ SumCents(PrincipalColumn, Len(rows)) >= 0
    /\ WithinCents(SumCents(PrincipalColumn, Len(rows)), loan_amount, Len(rows))

\* C7: once the scan is over, break_even_year is the smallest year whose mean Rent
\* Received is at least the instalment, and None when there is no such year (so it
\* is 1 whenever the first year's mean already covers the instalment).
C7_BreakEvenYear ==
  pc \in {"flags", "done"} =>
    IF \E y \in 1..args.tenure_years : MeanRentCovers(y)
    THEN /\ break_even_year # None
         /\ MeanRentCovers(break_even_year[1])
         /\ \A y \in 1..(break_even_year[1] - 1) : ~MeanRentCovers(y)
    ELSE break_even_year = None

C7_Witness ==
  /\ pc = "done"
  /\ break_even_year = <<2>>
  /\ ~MeanRentCovers(1)
  /\ MeanRentCovers(2)

C9_EmiCoversPrincipal ==
  ValidInput =>
    /\ ~(pc = "raised" /\ rows = <<>>)
    /\ pc \in {"loop", "scan", "flags", "done"} =>
         /\ Gt(emi, FromInt(0))
         /\ Ge(Mul(Mul(emi, FromInt(args.tenure_years)), FromInt(12)), loan_amount)

\* C10 (as stated): a row is flagged Cashflow Positive exactly when its emitted
\* Amount Paid by User is at most zero.
C10_FlagIffNothingPaid ==
  pc = "done" =>
    \A i \in 1..Len(rows) : cashflow_positive[i] <=> CentsOf(rows[i].AmountPaidByUser) <= 0

\* C10 (amended): a row whose emitted Amount Paid by User is below zero is flagged
\* Cashflow Positive, and a row whose emitted Amount Paid by User is above one cent
\* is not.
C10_FlagBeyondACent ==
  pc = "done" =>
    \A i \in 1..Len(rows) :
      /\ CentsOf(rows[i].AmountPaidByUser) < 0 => cashflow_positive[i]
      /\ CentsOf(rows[i].AmountPaidByUser) > 1 => ~cashflow_positive[i]

C10_Witness ==
  /\ pc = "done"
  /\ \E i \in 1..Len(rows) : CentsOf(rows[i].AmountPaidByUser) < 0 /\ cashflow_positive[i]
  /\ \E i \in 1..Len(rows) : CentsOf(rows[i].AmountPaidByUser) > 1 /\ ~cashflow_positive[i]
====
